---- MODULE Spec2Model ----
(***************************************************************************)
(* Verification model of pi-conversation-analyzer.                         *)
(*                                                                         *)
(*   - the Response Coercion Engine (_coerce_results,                      *)
(*     src/classifiers/message_classifier.py), as a pure function checked  *)
(*     under SpecCoerce;                                                   *)
(*   - the Session Scheduler (fetch_sessions_to_process, src/db.py) and    *)
(*     the Batch Orchestrator (run_pipeline, src/pipeline.py) with the     *)
(*     result tables, as a state machine checked under Spec and LiveSpec.  *)
(*   - _robust_json_parse and classify_text (src/openai_client.py) under   *)
(*     SpecParse and SpecClient, the upserts of src/db.py under SpecDb,    *)
(*     the chunking of run_pipeline under SpecChunk, and load_categories   *)
(*     (src/taxonomy.py) with run_pipeline and a taxonomy file that is     *)
(*     edited at any moment under SpecTaxonomy.                            *)
(***************************************************************************)
EXTENDS Integers, Sequences, FiniteSets, TLC

VARIABLES
    \* ---- _coerce_results: arguments and outcome
    model_out,          \* parsed model response (a mapping)
    categories,         \* allowed labels (list)
    expected_ids,       \* ids we asked the model to classify (list)
    coerced,            \* outcome of the call: [state, raised, out]
    \* ---- database tables
    message_table,              \* rows of `messages`
    session_classification,     \* session_id -> row of session_classification
    message_classification,     \* message_id -> row of message_classification
    \* ---- run_pipeline: arguments and locals
    pc,                 \* "idle" | "starting" | "session" | "fetched" | "answered" |
                        \* "classified" | "batches" | "upserting" | "aborted" | "fatal"
    args,               \* keyword arguments of the running pass
    sessions,           \* list returned by fetch_sessions_to_process, truncated
    idx,                \* position of the for-loop over sessions (1-based)
    msgs_raw,           \* messages fetched for the session being handled
    batches,            \* message batches of that session still to be sent
    result,             \* answer of the session-level call not yet stored (<<>>: none)
    results,            \* results of the answered batch still to be upserted
    sessions_processed,
    messages_processed,
    fetched,            \* the list of fetch_sessions_to_process before `[:limit]`
    n_at_fetch,         \* rows of `messages` when that list was fetched
    \* ---- _robust_json_parse: argument and outcome
    content,            \* the text returned by the model (list of characters)
    parsed,             \* outcome of the call: [state, raised, v, s, repaired]
    \* ---- classify_text under its retry decorator
    ct_pc,              \* "idle" | "create" | "repair" | "returned" | "raised"
    attempt_number,     \* attempts of classify_text started by the decorator
    calls,              \* log of client.chat.completions.create calls
    raw,                \* message content of the first answer of the attempt
    ct_out,             \* outcome of the request: [error, v]
    \* ---- the taxonomy file read by load_categories
    taxonomy,           \* [kind, cats]
    \* ---- the chunking of run_pipeline: arguments and outcome
    chunk_targets,      \* target message ids of a session, in order
    chunk_size,         \* per_session_message_batch_size
    chunk_batches,      \* outcome: [state, v]
    \* ---- the session-level calls sent to the service
    transcripts         \* session_id -> [ids, roles] of the call behind its record

coerceVars == <<model_out, categories, expected_ids, coerced>>
dbVars     == <<message_table, session_classification, message_classification>>
runVars    == <<pc, args, sessions, idx, msgs_raw, batches, result, results,
                sessions_processed, messages_processed, fetched, n_at_fetch>>
parseVars  == <<content, parsed>>
clientVars == <<ct_pc, attempt_number, calls, raw, ct_out>>
chunkVars  == <<chunk_targets, chunk_size, chunk_batches>>
vars       == <<coerceVars, dbVars, runVars, parseVars, clientVars, chunkVars, taxonomy,
                transcripts>>

(***************************************************************************)
(* Bounds of the exploration.                                              *)
(***************************************************************************)
MaxId       == 2    \* expected ids are drawn from 1..MaxId
MaxExpected == 2    \* longest expected_ids list
MaxItems    == 2    \* longest 'items' list in a response

(***************************************************************************)
(* Exact arithmetic for scores.  A score is a rational [n, d] in lowest    *)
(* terms with d > 0; the raw scores of the model are small dyadic numbers, *)
(* whose float sums are exact.                                             *)
(***************************************************************************)
Abs(x) == IF x < 0 THEN -x ELSE x

RECURSIVE GCD(_, _)
GCD(a, b) == IF b = 0 THEN a ELSE GCD(b, a % b)

Rat(n, d) == LET g == GCD(Abs(n), d) IN [n |-> n \div g, d |-> d \div g]

RatAdd(x, y) == Rat(x.n * y.d + y.n * x.d, x.d * y.d)

Zero == Rat(0, 1)

RatLeq(x, y) == x.n * y.d <= y.n * x.d

Range(seq) == {seq[i] : i \in 1..Len(seq)}

(***************************************************************************)
(* JSON values of a model response.                                        *)
(***************************************************************************)
Labels == {"billing", "tech", "other"}

\* a raw score value under scores[c]
ScoreAbsent  == [k |-> "absent", n |-> 0, d |-> 1]
ScoreNum(n, d) == [k |-> "num", n |-> n, d |-> d]
ScoreNumStr(n, d) == [k |-> "numstr", n |-> n, d |-> d]    \* e.g. "0.5"
ScoreBadStr  == [k |-> "badstr", n |-> 0, d |-> 1]         \* e.g. "high"
ScoreNull    == [k |-> "null", n |-> 0, d |-> 1]

NoScoreMap == [c \in Labels |-> ScoreAbsent]

\* the value under 'scores' of an item
ScoresAbsent == [k |-> "absent", m |-> NoScoreMap]
ScoresNull   == [k |-> "null", m |-> NoScoreMap]
ScoresNonMap == [k |-> "nonmap", m |-> NoScoreMap]      \* e.g. 5 or [0.9]
ScoresMap(b, t, o) ==
    [k |-> "map", m |-> [c \in Labels |->
        IF c = "billing" THEN b ELSE IF c = "tech" THEN t ELSE o]]

\* the value under 'message_id' of an item
MidAbsent    == [k |-> "absent", n |-> 0]
MidInt(n)    == [k |-> "int", n |-> n]
MidNumStr(n) == [k |-> "numstr", n |-> n]     \* e.g. "1"
MidBadStr    == [k |-> "badstr", n |-> 0]     \* e.g. "first"

\* the value under 'primary_category' of an item
PrimAbsent  == [k |-> "absent", s |-> ""]
PrimStr(s)  == [k |-> "str", s |-> s]

MapItem(mid, prim, sc) ==
    [isMap |-> TRUE, message_id |-> mid, primary_category |-> prim, scores |-> sc]

\* a list element that is not a mapping (a number, null, a string, a character)
NonMapItem ==
    [isMap |-> FALSE, message_id |-> MidAbsent, primary_category |-> PrimAbsent,
     scores |-> ScoresAbsent]

\* the value under 'items'
ItemsAbsent   == [t |-> "absent", v |-> <<>>]
ItemsNull     == [t |-> "null", v |-> <<>>]
ItemsNum      == [t |-> "num", v |-> <<>>]
ItemsStr      == [t |-> "str", v |-> <<NonMapItem, NonMapItem>>]  \* its characters
ItemsMapping  == [t |-> "map", v |-> <<NonMapItem>>]              \* its keys
ItemsList(l)  == [t |-> "list", v |-> l]

(***************************************************************************)
(* _coerce_results (src/classifiers/message_classifier.py:27-85).          *)
(* An exception leaving the function is the outcome raised = TRUE.         *)
(***************************************************************************)

\* lines 53-56: mid = int(it.get("message_id")), any exception skips the item
ParseMid(it) ==
    IF it.isMap /\ it.message_id.k \in {"int", "numstr"}
    THEN [ok |-> TRUE, n |-> it.message_id.n]
    ELSE [ok |-> FALSE, n |-> 0]

\* line 57: only ids we asked for, and only the first item of an id
Keep_Overwrite(mid, expected_set, by_id) == mid \in expected_set

Keep(mid, expected_set, by_id) ==
    mid \in expected_set /\ mid \notin DOMAIN by_id

\* line 59: it.get("primary_category") or "other"
PrimaryOf(it) ==
    IF it.primary_category.k = "str" /\ it.primary_category.s # ""
    THEN it.primary_category.s ELSE "other"

\* line 68: primary if primary in categories else "other"
ValidPrimary(primary, cats) ==
    IF primary \in Range(cats) THEN primary ELSE "other"

\* line 60: it.get("scores") or {}
RawScoresOf(it) ==
    IF it.scores.k \in {"absent", "null"} THEN NoScoreMap ELSE it.scores.m

\* line 62: float(x) of one raw score; CanFloat is FALSE where float raises
CanFloat(v) == v.k \in {"absent", "num", "numstr"}

FloatOf(v) == IF v.k = "absent" THEN Zero ELSE Rat(v.n, v.d)

\* line 62 raises: scores.get on a non-mapping, or float() on a bad value
ScoresRaise(it, cats) ==
    /\ cats # <<>>
    /\ \/ it.scores.k = "nonmap"
       \/ \E c \in Range(cats) : ~CanFloat(RawScoresOf(it)[c])

RECURSIVE SumScores(_, _)
SumScores(scores, keys) ==
    IF keys = {} THEN Zero
    ELSE LET c == CHOOSE x \in keys : TRUE
         IN RatAdd(scores[c], SumScores(scores, keys \ {c}))

\* lines 65, 73: {c: 1.0 / len(categories) for c in categories}
Uniform(cats) == [c \in Range(cats) |-> Rat(1, Len(cats))]

\* lines 62-65: complete the vector, uniform when it sums to 0.0
ScoresOf_NoUniform(it, cats) ==
    [c \in Range(cats) |-> FloatOf(RawScoresOf(it)[c])]

ScoresOf(it, cats) ==
    LET scores == [c \in Range(cats) |-> FloatOf(RawScoresOf(it)[c])]
    IN IF SumScores(scores, Range(cats)) = Zero THEN Uniform(cats) ELSE scores

\* lines 66-70: the entry stored in by_id
Entry(it, mid, cats) ==
    [message_id |-> mid,
     primary_category |-> ValidPrimary(PrimaryOf(it), cats),
     scores |-> ScoresOf(it, cats)]

\* lines 79-83: the default entry of an id the response did not cover
DefaultEntry(mid, cats) ==
    [message_id |-> mid, primary_category |-> "other", scores |-> Uniform(cats)]

\* lines 52-70: the loop over items, from position i on
RECURSIVE CoerceLoop(_, _, _, _, _)
CoerceLoop(items, i, by_id, cats, expected_set) ==
    IF i > Len(items) THEN [raised |-> FALSE, by_id |-> by_id]
    ELSE LET it == items[i]
             p  == ParseMid(it)
         IN IF p.ok /\ Keep(p.n, expected_set, by_id)
            THEN IF ScoresRaise(it, cats)
                 THEN [raised |-> TRUE, by_id |-> by_id]
                 ELSE CoerceLoop(items, i + 1,
                                 (p.n :> Entry(it, p.n, cats)) @@ by_id,
                                 cats, expected_set)
            ELSE CoerceLoop(items, i + 1, by_id, cats, expected_set)

\* line 52: `for it in items` raises TypeError when items is not iterable
\* (null, a number); a string yields its characters, a mapping its keys
Iterable(items) == items.t \notin {"null", "num"}

\* lines 73-85: one entry per expected id, in the order of expected_ids
Fill(by_id, cats, ids) ==
    [i \in 1..Len(ids) |->
        IF ids[i] \in DOMAIN by_id THEN by_id[ids[i]] ELSE DefaultEntry(ids[i], cats)]

_coerce_results(mo, cats, ids) ==
    IF ~Iterable(mo.items) THEN [raised |-> TRUE, out |-> <<>>]
    ELSE LET r == CoerceLoop(mo.items.v, 1, <<>>, cats, Range(ids))
         IN IF r.raised THEN [raised |-> TRUE, out |-> <<>>]
            ELSE [raised |-> FALSE, out |-> Fill(r.by_id, cats, ids)]

(***************************************************************************)
(* Inputs of _coerce_results explored under SpecCoerce.                    *)
(***************************************************************************)
CategoryLists == {<<"billing", "other">>, <<"billing", "tech">>, <<"other">>}

ExpectedLists == UNION {[1..n -> 1..MaxId] : n \in 0..MaxExpected}

\* message ids found in responses: requested ones and a foreign one
ResponseIds == 1..(MaxId + 1)

\* items that differ in identity and label, without scores
IdItems ==
    {MapItem(mid, prim, ScoresAbsent) :
        mid \in {MidInt(n) : n \in ResponseIds} \cup {MidNumStr(1), MidBadStr, MidAbsent},
        prim \in {PrimAbsent, PrimStr("billing"), PrimStr("tech")}}

\* items for id 1 that differ in their scores
ScoreValues ==
    {ScoresNull, ScoresNonMap,
     ScoresMap(ScoreNum(0, 1), ScoreAbsent, ScoreAbsent),
     ScoresMap(ScoreNum(1, 2), ScoreAbsent, ScoreAbsent),
     ScoresMap(ScoreNum(1, 1), ScoreAbsent, ScoreNum(-1, 1)),
     ScoresMap(ScoreNum(2, 1), ScoreNum(1, 2), ScoreNumStr(1, 2)),
     ScoresMap(ScoreAbsent, ScoreAbsent, ScoreNum(1, 1)),
     ScoresMap(ScoreBadStr, ScoreAbsent, ScoreNum(1, 2)),
     ScoresMap(ScoreNum(1, 2), ScoreNull, ScoreNull)}

ScoreItems == {MapItem(MidInt(1), PrimStr("other"), sc) : sc \in ScoreValues}

Items == {NonMapItem} \cup IdItems \cup ScoreItems

ItemLists == UNION {[1..n -> Items] : n \in 0..MaxItems}

ModelOuts ==
    {[items |-> v] : v \in {ItemsAbsent, ItemsNull, ItemsNum, ItemsStr, ItemsMapping}}
    \cup {[items |-> ItemsList(l)] : l \in ItemLists}

(***************************************************************************)
(* The database (src/db.py) and the pass of run_pipeline                   *)
(* (src/pipeline.py).                                                      *)
(***************************************************************************)
MaxMsgs == 2    \* rows of `messages` ever inserted
MaxTs   == 2    \* timestamps are 1..MaxTs

SessionIds == {"A", "B"}
RoleNames  == {"user", "assistant"}

\* Optional[...] arguments
None    == [some |-> FALSE, v |-> 0]
Some(x) == [some |-> TRUE, v |-> x]

\* truth value of an Optional[int] / Optional[str] in `if x:`
Truthy(x) == x.some /\ x.v # 0

\* load_categories(): the taxonomy of the deployment
PipelineCategories == <<"billing", "other">>

\* cfg.assistant_model and the etag of the instruction blobs
AssistantModel == "gpt"
InstrVersion   == "etag-1"

Max(S) == CHOOSE x \in S : \A y \in S : y <= x

RECURSIVE SortedPerms_Unordered(_, _)
SortedPerms_Unordered(S, k) ==
    IF S = {} THEN {<<>>}
    ELSE UNION {{<<x>> \o rest : rest \in SortedPerms_Unordered(S \ {x}, k)} : x \in S}

\* all orders of the rows of S that ascend in k (ties in any order)
RECURSIVE SortedPerms(_, _)
SortedPerms(S, k) ==
    IF S = {} THEN {<<>>}
    ELSE LET least == {x \in S : \A y \in S : k[x] <= k[y]}
         IN UNION {{<<x>> \o rest : rest \in SortedPerms(S \ {x}, k)} : x \in least}

Rows(table) == {table[i] : i \in DOMAIN table}

InWindow_Ignored(m, since) == TRUE

\* db.py:118-129: per-session aggregation, restricted by `since`
InWindow(m, since) == ~Truthy(since) \/ m.timestamp >= since.v

Aggregates(messages, since) ==
    LET win == {m \in Rows(messages) : InWindow(m, since)}
    IN {[session_id |-> s,
         max_ts |-> Max({m.timestamp : m \in {x \in win : x.session_id = s}}),
         message_count |-> Cardinality({x \in win : x.session_id = s})] :
            s \in {m.session_id : m \in win}}

\* db.py:135: the WHERE clause of the left join
DueRule_Geq(max_ts, processed_upto) == max_ts >= processed_upto

DueRule(max_ts, processed_upto) == max_ts > processed_upto

IsDue_Always(row, sc) == TRUE

\* db.py:135: no record (the outer join gives NULL), or a later message
IsDue(row, sc) ==
    \/ row.session_id \notin DOMAIN sc
    \/ DueRule(row.max_ts, sc[row.session_id].processed_upto)

\* db.py:101-139: the possible result lists (ORDER BY max_ts ASC)
fetch_sessions_to_process(messages, sc, since) ==
    LET due == {r \in Aggregates(messages, since) : IsDue(r, sc)}
    IN SortedPerms(due, [r \in due |-> r.max_ts])

\* db.py:142-167: the possible result lists (ORDER BY timestamp ASC)
fetch_messages_for_session(messages, session_id, roles) ==
    LET sel == {m \in Rows(messages) : m.session_id = session_id /\ m.role \in roles}
    IN SortedPerms(sel, [m \in sel |-> m.timestamp])

\* pipeline.py:51-65
_existing_classified_message_ids(mc, session_id) ==
    {i \in DOMAIN mc : mc[i].session_id = session_id}

upsert_session_classification_Uncommitted(sc, session_id, primary_category, all_categories, processed_upto, model, instructions_version, notes) == sc

\* db.py:207-253: the statement runs in its own transaction (engine.begin)
upsert_session_classification(sc, session_id, primary_category, all_categories, processed_upto, model, instructions_version, notes) ==
    (session_id :> [session_id |-> session_id,
                    primary_category |-> primary_category,
                    all_categories |-> all_categories,
                    processed_upto |-> processed_upto,
                    model |-> model,
                    instructions_version |-> instructions_version,
                    notes |-> notes]) @@ sc

\* db.py:256-300: INSERT ... ON CONFLICT (message_id) DO UPDATE; the update
\* leaves session_id and role of the stored row as they are
upsert_message_classification_InsertOnly(mc, message_id, session_id, role, primary_category, all_categories, model, instructions_version) ==
    ((Cardinality(DOMAIN mc) + 1) :>
        [message_id |-> message_id, session_id |-> session_id, role |-> role,
         primary_category |-> primary_category, all_categories |-> all_categories,
         model |-> model, instructions_version |-> instructions_version]) @@ mc

upsert_message_classification(mc, message_id, session_id, role, primary_category, all_categories, model, instructions_version) ==
    LET old == message_id \in DOMAIN mc
    IN (message_id :> [message_id |-> message_id,
                       session_id |-> IF old THEN mc[message_id].session_id ELSE session_id,
                       role |-> IF old THEN mc[message_id].role ELSE role,
                       primary_category |-> primary_category,
                       all_categories |-> all_categories,
                       model |-> model,
                       instructions_version |-> instructions_version]) @@ mc

\* pipeline.py:115-116: `if limit: sessions = sessions[:limit]`
Slice(seq, n) ==
    LET stop == IF n >= 0 THEN (IF n < Len(seq) THEN n ELSE Len(seq))
                ELSE (IF Len(seq) + n > 0 THEN Len(seq) + n ELSE 0)
    IN SubSeq(seq, 1, stop)

Truncate_Always(seq, limit) == IF limit.some THEN Slice(seq, limit.v) ELSE seq

Truncate(seq, limit) == IF Truthy(limit) THEN Slice(seq, limit.v) ELSE seq

RECURSIVE Chunks_DropShort(_, _)
Chunks_DropShort(seq, n) ==
    IF Len(seq) < n THEN <<>>
    ELSE <<SubSeq(seq, 1, n)>> \o Chunks_DropShort(SubSeq(seq, n + 1, Len(seq)), n)

\* pipeline.py:175-181: _chunks, used only for a positive batch size
RECURSIVE Chunks(_, _)
Chunks(seq, n) ==
    IF seq = <<>> THEN <<>>
    ELSE IF Len(seq) <= n THEN <<seq>>
    ELSE <<SubSeq(seq, 1, n)>> \o Chunks(SubSeq(seq, n + 1, Len(seq)), n)

BatchesOf(targets, size) ==
    IF Truthy(size) /\ size.v > 0 THEN Chunks(targets, size.v) ELSE <<targets>>

(***************************************************************************)
(* Texts of the model and json.loads.  A text is a list of characters      *)
(* over a small alphabet: the structural characters of JSON, the quote,    *)
(* one digit and the blank.  json.loads is a pushdown scanner over it; a   *)
(* parsed document is represented by its compact serialisation             *)
(* (json.dumps(value, separators=(",", ":"))).                             *)
(***************************************************************************)
MaxLen == 6     \* longest text given to _robust_json_parse

Chars == {"{", "}", "[", "]", ",", ":", "\"", "1", " "}

Texts == UNION {[1..n -> Chars] : n \in 0..MaxLen}

ScanFail == [err |-> TRUE, st |-> "fail", stack |-> <<>>]

Pop(stack) == SubSeq(stack, 1, Len(stack) - 1)

Top(stack) == IF stack = <<>> THEN "" ELSE stack[Len(stack)]

\* json.decoder / json.scanner: the scanner reads s[i] in state st with the
\* open aggregates on the stack
\*   val   a value is expected        arr0  just after '['
\*   obj0  just after '{'             key   a key is expected (after ',')
\*   colon a ':' is expected          after a value is complete
\*   instr, inkey  inside a string value / a key     num  inside a number
RECURSIVE Scan(_, _, _, _)
Scan(s, i, st, stack) ==
    IF i > Len(s) THEN [err |-> FALSE, st |-> st, stack |-> stack]
    ELSE LET c == s[i]
         IN IF st = "instr"
            THEN Scan(s, i + 1, IF c = "\"" THEN "after" ELSE "instr", stack)
            ELSE IF st = "inkey"
            THEN Scan(s, i + 1, IF c = "\"" THEN "colon" ELSE "inkey", stack)
            ELSE IF st = "num"
            THEN IF c = "1" THEN Scan(s, i + 1, "num", stack)
                 ELSE Scan(s, i, "after", stack)
            ELSE IF c = " " THEN Scan(s, i + 1, st, stack)
            ELSE IF st = "colon"
            THEN IF c = ":" THEN Scan(s, i + 1, "val", stack) ELSE ScanFail
            ELSE IF st = "after"
            THEN IF c = "," /\ Top(stack) = "[" THEN Scan(s, i + 1, "val", stack)
                 ELSE IF c = "," /\ Top(stack) = "{" THEN Scan(s, i + 1, "key", stack)
                 ELSE IF c = "]" /\ Top(stack) = "[" THEN Scan(s, i + 1, "after", Pop(stack))
                 ELSE IF c = "}" /\ Top(stack) = "{" THEN Scan(s, i + 1, "after", Pop(stack))
                 ELSE ScanFail
            ELSE IF st \in {"obj0", "key"}
            THEN IF c = "\"" THEN Scan(s, i + 1, "inkey", stack)
                 ELSE IF c = "}" /\ st = "obj0" THEN Scan(s, i + 1, "after", Pop(stack))
                 ELSE ScanFail
            ELSE \* st \in {"val", "arr0"}
                 IF c = "{" THEN Scan(s, i + 1, "obj0", Append(stack, "{"))
                 ELSE IF c = "[" THEN Scan(s, i + 1, "arr0", Append(stack, "["))
                 ELSE IF c = "\"" THEN Scan(s, i + 1, "instr", stack)
                 ELSE IF c = "1" THEN Scan(s, i + 1, "num", stack)
                 ELSE IF c = "]" /\ st = "arr0" THEN Scan(s, i + 1, "after", Pop(stack))
                 ELSE ScanFail

\* the blanks outside string literals removed
RECURSIVE Compact(_, _, _)
Compact(s, i, instring) ==
    IF i > Len(s) THEN <<>>
    ELSE IF s[i] = " " /\ ~instring THEN Compact(s, i + 1, instring)
    ELSE <<s[i]>> \o Compact(s, i + 1, IF s[i] = "\"" THEN ~instring ELSE instring)

\* json.loads(s): ok is FALSE where it raises json.JSONDecodeError
json_loads(s) ==
    LET r == Scan(s, 1, "val", <<>>)
        ok == ~r.err /\ r.st \in {"after", "num"} /\ r.stack = <<>>
    IN [ok |-> ok, v |-> IF ok THEN Compact(s, 1, FALSE) ELSE <<>>]

(***************************************************************************)
(* _robust_json_parse (src/openai_client.py:38-81).                        *)
(***************************************************************************)
RECURSIVE LStrip(_)
LStrip(s) == IF s # <<>> /\ Head(s) = " " THEN LStrip(Tail(s)) ELSE s

RECURSIVE RStrip(_)
RStrip(s) ==
    IF s # <<>> /\ s[Len(s)] = " " THEN RStrip(SubSeq(s, 1, Len(s) - 1)) ELSE s

\* str.strip()
strip(s) == RStrip(LStrip(s))

\* str.replace(old, new) from position i on: the occurrences of old, left
\* to right and not overlapping
RECURSIVE ReplaceFrom(_, _, _, _)
ReplaceFrom(s, i, old, new) ==
    IF i > Len(s) THEN <<>>
    ELSE IF i + Len(old) - 1 <= Len(s) /\ SubSeq(s, i, i + Len(old) - 1) = old
    THEN new \o ReplaceFrom(s, i + Len(old), old, new)
    ELSE <<s[i]>> \o ReplaceFrom(s, i + 1, old, new)

replace(s, old, new) == ReplaceFrom(s, 1, old, new)

\* line 66: one pass of the loop
CleanPass(s) == replace(replace(s, <<",", "]">>, <<"]">>), <<",", "}">>, <<"}">>)

\* lines 65-66: for _ in range(3)
Cleaned(s) == CleanPass(CleanPass(CleanPass(s)))

\* str.count(c)
count(s, c) == Cardinality({i \in 1..Len(s) : s[i] = c})

Repeat(c, n) == [i \in 1..n |-> c]

\* lines 70-78: the missing closers, the square ones first
Balanced(s) ==
    LET opens_curly == count(s, "{")
        closes_curly == count(s, "}")
        opens_square == count(s, "[")
        closes_square == count(s, "]")
        s1 == IF opens_square > closes_square
              THEN s \o Repeat("]", opens_square - closes_square) ELSE s
    IN IF opens_curly > closes_curly
       THEN s1 \o Repeat("}", opens_curly - closes_curly) ELSE s1

\* the whole function: raised is TRUE where the final json.loads raises; s is
\* the text that was parsed, repaired tells whether it went through repair
_robust_json_parse(text) ==
    LET first == json_loads(text)
    IN IF first.ok
       THEN [raised |-> FALSE, v |-> first.v, s |-> text, repaired |-> FALSE]
       ELSE LET s == Balanced(Cleaned(strip(text)))
                last == json_loads(s)
            IN [raised |-> ~last.ok, v |-> last.v, s |-> s, repaired |-> TRUE]

(***************************************************************************)
(* classify_text and its retry decorator (src/openai_client.py:149-219):   *)
(* the answers of client.chat.completions.create and the decisions of      *)
(* tenacity.                                                               *)
(***************************************************************************)
stop_after_attempt == 5

\* retry_if_exception_type((RateLimitError, APIError))
TransientErrors == {"RateLimitError", "APIError"}

\* an exception of create that is no openai.APIError
OtherErrors == {"Exception"}

\* a document, a document cut off inside an object, one cut off inside an
\* object of an array, and a text that is no JSON at all
ServiceTexts ==
    {<<"{", "}">>,
     <<"{", "\"", "\"", ":", "1">>,
     <<"[", "{", "\"", "\"", ":", "1">>,
     <<"]">>}

NoContent == [kind |-> "none", text |-> <<>>]     \* message.content is None

\* what one call of create does: it returns a message or raises
Responses ==
    {[kind |-> "content", text |-> t] : t \in ServiceTexts}
        \cup {NoContent}
        \cup {[kind |-> e, text |-> <<>>] : e \in TransientErrors \cup OtherErrors}

\* _robust_json_parse(resp.choices[0].message.content): json.loads(None)
\* raises TypeError, which _robust_json_parse does not catch
ParseContent(resp) ==
    IF resp.kind = "none" THEN [raised |-> TRUE, error |-> "TypeError", v |-> <<>>]
    ELSE LET r == _robust_json_parse(resp.text)
         IN [raised |-> r.raised,
             error |-> IF r.raised THEN "JSONDecodeError" ELSE "",
             v |-> r.v]

\* the log entry of a call
ResultOf(resp) ==
    IF resp.kind \notin {"content", "none"} THEN resp.kind
    ELSE IF ParseContent(resp).raised THEN "unparseable" ELSE "parsed"

ShouldRetry_OneMore(e, attempt) == e \in TransientErrors /\ attempt <= stop_after_attempt

ShouldRetry_AnyException(e, attempt) == attempt < stop_after_attempt

ShouldRetry_Unbounded(e, attempt) == e \in TransientErrors

\* lines 149-154: retry the transient classes, stop after 5 attempts
ShouldRetry(e, attempt) == e \in TransientErrors /\ attempt < stop_after_attempt

(***************************************************************************)
(* load_categories (src/taxonomy.py:14-28) and the taxonomy file.          *)
(***************************************************************************)
ValidTaxonomy == [kind |-> "list", cats |-> PipelineCategories]

\* the file is missing, holds no mapping (an empty file, a list), has no
\* 'categories' key, has a 'categories' that is no list, has an empty list, or
\* lists the categories
TaxonomySources ==
    {[kind |-> "missing", cats |-> <<>>],
     [kind |-> "nomapping", cats |-> <<>>],
     [kind |-> "nokey", cats |-> <<>>],
     [kind |-> "scalar", cats |-> <<>>],
     [kind |-> "list", cats |-> <<>>],
     ValidTaxonomy}

load_categories_AllowEmpty(src) ==
    [raised |-> src.kind \in {"missing", "nomapping"},
     error |-> IF src.kind = "missing" THEN "FileNotFoundError"
               ELSE IF src.kind = "nomapping" THEN "AttributeError"
               ELSE "",
     cats |-> src.cats]

\* line 24: read_text raises for a missing file; line 25: data.get raises
\* when the document is no mapping; lines 26-27: a 'categories' that is
\* absent (the default []), no list or empty raises ValueError
load_categories(src) ==
    [raised |-> src.kind # "list" \/ src.cats = <<>>,
     error |-> IF src.kind = "missing" THEN "FileNotFoundError"
               ELSE IF src.kind = "nomapping" THEN "AttributeError"
               ELSE IF src.kind # "list" \/ src.cats = <<>> THEN "ValueError"
               ELSE "",
     cats |-> src.cats]

(***************************************************************************)
(* Arguments of a pass and answers of the classification service.          *)
(***************************************************************************)
SinceValues == {None, Some(MaxTs)}

\* the arguments other than `since`; the two that only steer the message
\* level keep their defaults when that level is switched off
ArgsSet ==
    {a \in [roles : {{"user"}, RoleNames},
            limit : {None, Some(0), Some(1)},
            run_session_classification : BOOLEAN,
            run_message_classification : BOOLEAN,
            reclassify_existing_messages : BOOLEAN,
            per_session_message_batch_size : {None, Some(1)}] :
        ~a.run_message_classification =>
            /\ ~a.reclassify_existing_messages
            /\ a.per_session_message_batch_size = None}

NoArgs ==
    [roles |-> RoleNames, limit |-> None,
     run_session_classification |-> TRUE,
     run_message_classification |-> TRUE,
     reclassify_existing_messages |-> FALSE,
     per_session_message_batch_size |-> None]

\* parsed answers to a session-level call: an empty mapping, the mapping the
\* instructions ask for, and one with a label that is no category
SessionAnswers ==
    {[primary_category |-> PrimAbsent, scores |-> ScoresAbsent, rationale |-> PrimAbsent],
     [primary_category |-> PrimStr("billing"),
      scores |-> ScoresMap(ScoreNum(1, 1), ScoreAbsent, ScoreNum(0, 1)),
      rationale |-> PrimStr("why")],
     [primary_category |-> PrimStr("bogus"), scores |-> ScoresAbsent,
      rationale |-> PrimAbsent]}

\* parsed answers to a message batch: nothing usable, one labelled item per
\* requested id, or an 'items' that is null
BatchAnswers(ids) ==
    {[items |-> ItemsAbsent],
     [items |-> ItemsList([i \in 1..Len(ids) |->
                    MapItem(MidInt(ids[i]), PrimStr("billing"), ScoresAbsent)])],
     [items |-> ItemsNull]}

(***************************************************************************)
(* Initial state: empty tables, no pass running, no call of                *)
(* _coerce_results under way.                                              *)
(***************************************************************************)
InitDb ==
    /\ message_table = <<>>
    /\ session_classification = <<>>
    /\ message_classification = <<>>

InitRun ==
    /\ pc = "idle"
    /\ args = NoArgs
    /\ sessions = <<>>
    /\ fetched = <<>>
    /\ idx = 1
    /\ msgs_raw = <<>>
    /\ batches = <<>>
    /\ result = <<>>
    /\ results = <<>>
    /\ sessions_processed = 0
    /\ messages_processed = 0
    /\ n_at_fetch = 0
    /\ transcripts = <<>>

NoCoerce ==
    /\ model_out = [items |-> ItemsAbsent]
    /\ categories = PipelineCategories
    /\ expected_ids = <<>>
    /\ coerced = [state |-> "pending", raised |-> FALSE, out |-> <<>>]

NoParse ==
    /\ content = <<>>
    /\ parsed = [state |-> "pending", raised |-> FALSE, v |-> <<>>, s |-> <<>>,
                 repaired |-> FALSE]

NoClient ==
    /\ ct_pc = "idle"
    /\ attempt_number = 0
    /\ calls = <<>>
    /\ raw = NoContent
    /\ ct_out = [error |-> "", v |-> <<>>]

NoChunk ==
    /\ chunk_targets = <<>>
    /\ chunk_size = None
    /\ chunk_batches = [state |-> "pending", v |-> <<>>]

Init ==
    /\ NoCoerce /\ InitDb /\ InitRun /\ NoParse /\ NoClient /\ NoChunk
    /\ taxonomy = ValidTaxonomy

(***************************************************************************)
(* The chatbot inserts a message row (outside this program).               *)
(***************************************************************************)
AddMessage(s, r, t) ==
    /\ Len(message_table) < MaxMsgs
    /\ message_table' = Append(message_table,
            [id |-> Len(message_table) + 1, session_id |-> s, role |-> r, timestamp |-> t])
    /\ UNCHANGED <<session_classification, message_classification, runVars, coerceVars, parseVars, clientVars, chunkVars, transcripts, taxonomy>>

(***************************************************************************)
(* run_pipeline (src/pipeline.py:68-221).                                  *)
(***************************************************************************)

\* run_pipeline is left, by return or by an exception: its locals are gone
Exit(how) ==
    /\ pc' = how
    /\ args' = NoArgs
    /\ sessions' = <<>>
    /\ fetched' = <<>>
    /\ idx' = 1
    /\ msgs_raw' = <<>>
    /\ batches' = <<>>
    /\ result' = <<>>
    /\ results' = <<>>
    /\ sessions_processed' = 0
    /\ messages_processed' = 0
    /\ n_at_fetch' = 0

\* the states of pc between two runs of run_pipeline
BetweenRuns == {"idle", "aborted", "fatal"}

OtherVars == <<coerceVars, parseVars, clientVars, chunkVars>>

\* lines 97-104: configuration, engine, result tables, client, and the
\* taxonomy file read by load_categories
LoadCategories ==
    /\ pc \in BetweenRuns
    /\ ~load_categories(taxonomy).raised
    /\ pc' = "starting"
    /\ UNCHANGED <<args, sessions, idx, msgs_raw, batches, result, results,
                   sessions_processed, messages_processed, fetched, n_at_fetch>>
    /\ UNCHANGED <<dbVars, OtherVars, transcripts, taxonomy>>

\* lines 99-104: load_categories raises and the exception leaves run_pipeline
StartFails ==
    /\ pc \in BetweenRuns
    /\ load_categories(taxonomy).raised
    /\ Exit("fatal")
    /\ UNCHANGED <<dbVars, OtherVars, transcripts, taxonomy>>

\* lines 99-102, 106-114: get_config, get_engine, create_result_tables,
\* build_client, _load_instructions or the scheduling query raises
SetupFails ==
    /\ pc \in BetweenRuns \cup {"starting"}
    /\ Exit("aborted")
    /\ UNCHANGED <<dbVars, OtherVars, transcripts, taxonomy>>

\* lines 114-119: the scheduling query, the limit, the counters
StartPass(a, since) ==
    /\ pc = "starting"
    /\ \E lst \in fetch_sessions_to_process(message_table, session_classification, since) :
          /\ fetched' = lst
          /\ sessions' = Truncate(lst, a.limit)
    /\ args' = a
    /\ n_at_fetch' = Len(message_table)
    /\ idx' = 1
    /\ msgs_raw' = <<>>
    /\ batches' = <<>>
    /\ result' = <<>>
    /\ results' = <<>>
    /\ sessions_processed' = 0
    /\ messages_processed' = 0
    /\ pc' = "session"
    /\ UNCHANGED <<dbVars, OtherVars, transcripts, taxonomy>>

\* lines 121-124: the next session of the list and its messages
FetchMessages ==
    /\ pc = "session"
    /\ idx <= Len(sessions)
    /\ \E msgs \in fetch_messages_for_session(message_table, sessions[idx].session_id,
                                             args.roles) :
          msgs_raw' = msgs
    /\ pc' = "fetched"
    /\ UNCHANGED <<args, sessions, idx, batches, result, results, sessions_processed,
                   messages_processed, fetched, n_at_fetch>>
    /\ UNCHANGED <<dbVars, OtherVars, transcripts, taxonomy>>

Targets_NeverSkip(msgs, mc, session_id, reclassify) == [i \in 1..Len(msgs) |-> msgs[i].id]

\* lines 163-171: the ids of the messages to classify, in transcript order
Targets(msgs, mc, session_id, reclassify) ==
    LET already == IF reclassify THEN {}
                   ELSE _existing_classified_message_ids(mc, session_id)
        IsTarget(m) == m.id \notin already
        sel == SelectSeq(msgs, IsTarget)
    IN [i \in 1..Len(sel) |-> sel[i].id]

\* lines 126-147: the transcript and, when session classification is on and
\* the transcript is not empty, the session-level call, answered
SessionCall ==
    /\ pc = "fetched"
    /\ IF args.run_session_classification /\ msgs_raw # <<>>
       THEN /\ \E answer \in SessionAnswers : result' = <<answer>>
            /\ pc' = "answered"
       ELSE /\ result' = <<>>
            /\ pc' = "classified"
    /\ UNCHANGED <<args, sessions, idx, msgs_raw, batches, results, sessions_processed,
                   messages_processed, fetched, n_at_fetch>>
    /\ UNCHANGED <<dbVars, OtherVars, transcripts, taxonomy>>

\* lines 138-147: classify_session raises (retries or repair exhausted); the
\* exception leaves run_pipeline
SessionCallFails ==
    /\ pc = "fetched"
    /\ args.run_session_classification
    /\ msgs_raw # <<>>
    /\ Exit("aborted")
    /\ UNCHANGED <<dbVars, OtherVars, transcripts, taxonomy>>

\* lines 148-158: the upsert of the session record from the answer
\* (result.get of the three keys: 'other' and {} are the defaults, an absent
\* rationale is None and stored as NULL) and the counter
SessionUpsert ==
    /\ pc = "answered"
    /\ LET s == sessions[idx]
           answer == result[1]
       IN /\ session_classification' =
                upsert_session_classification(session_classification,
                    s.session_id,
                    IF answer.primary_category.k = "absent" THEN "other"
                    ELSE answer.primary_category.s,
                    IF answer.scores.k = "absent" THEN NoScoreMap
                    ELSE answer.scores.m,
                    s.max_ts, AssistantModel, InstrVersion, answer.rationale)
          /\ transcripts' =
                (s.session_id :> [ids |-> {msgs_raw[i].id : i \in 1..Len(msgs_raw)},
                                  roles |-> args.roles]) @@ transcripts
    /\ sessions_processed' = sessions_processed + 1
    /\ result' = <<>>
    /\ pc' = "classified"
    /\ UNCHANGED <<args, sessions, idx, msgs_raw, batches, results, messages_processed,
                   fetched, n_at_fetch>>
    /\ UNCHANGED <<message_table, message_classification, OtherVars, taxonomy>>

\* lines 161-183: the ids already classified, the targets and their batches;
\* without message classification, messages or targets the next session
SelectTargets ==
    /\ pc = "classified"
    /\ LET targets == Targets(msgs_raw, message_classification, sessions[idx].session_id,
                              args.reclassify_existing_messages)
       IN IF args.run_message_classification /\ msgs_raw # <<>> /\ targets # <<>>
          THEN /\ batches' = BatchesOf(targets, args.per_session_message_batch_size)
               /\ pc' = "batches"
               /\ idx' = idx
          ELSE /\ batches' = <<>>
               /\ pc' = "session"
               /\ idx' = idx + 1
    /\ UNCHANGED <<args, sessions, msgs_raw, result, results, sessions_processed,
                   messages_processed, fetched, n_at_fetch>>
    /\ UNCHANGED <<dbVars, OtherVars, transcripts, taxonomy>>

\* lines 124, 148-157, 165, 204-213: a statement sent to the database raises:
\* the query of the messages of the session, the upsert of the session
\* record, the query of the ids already classified, or the upsert of the
\* next result; what was committed before stays committed and the exception
\* leaves run_pipeline
DbFails ==
    /\ \/ pc = "session" /\ idx <= Len(sessions)
       \/ pc = "answered"
       \/ /\ pc = "classified"
          /\ args.run_message_classification
          /\ msgs_raw # <<>>
          /\ ~args.reclassify_existing_messages
       \/ pc = "upserting" /\ results # <<>>
    /\ Exit("aborted")
    /\ UNCHANGED <<dbVars, OtherVars, transcripts, taxonomy>>

\* lines 194-214: upsert the results from position i on
RECURSIVE UpsertResults(_, _, _, _)
UpsertResults(mc, results_, i, msgs) ==
    IF i > Len(results_) THEN mc
    ELSE LET mid == results_[i].message_id
             found == {m \in Range(msgs) : m.id = mid}
         IN IF found = {} THEN UpsertResults(mc, results_, i + 1, msgs)
            ELSE LET m == CHOOSE x \in found : TRUE
                 IN UpsertResults(
                        upsert_message_classification(mc, mid, m.session_id, m.role,
                            results_[i].primary_category, results_[i].scores,
                            AssistantModel, InstrVersion),
                        results_, i + 1, msgs)

Upserted_None(results_, msgs) == 0

\* lines 194-214: the results whose id is one of the transcript are upserted
\* and counted
Upserted(results_, msgs) ==
    Cardinality({i \in 1..Len(results_) :
                    \E m \in Range(msgs) : m.id = results_[i].message_id})

\* lines 184-193: the model call of one message batch, answered with a
\* mapping that _coerce_results turns into results or fails on
ClassifyBatchOf(answers) ==
    /\ pc = "batches"
    /\ batches # <<>>
    /\ \E answer \in answers :
          LET r == _coerce_results(answer, PipelineCategories, Head(batches))
          IN IF r.raised
             THEN Exit("aborted")
             ELSE /\ results' = r.out
                  /\ pc' = "upserting"
                  /\ UNCHANGED <<args, sessions, idx, msgs_raw, batches, result, fetched,
                                 n_at_fetch, sessions_processed, messages_processed>>
    /\ UNCHANGED <<dbVars, OtherVars, transcripts, taxonomy>>

ClassifyBatch == ClassifyBatchOf(BatchAnswers(Head(batches)))

\* lines 185-193: classify_messages raises inside classify_text
BatchCallFails ==
    /\ pc = "batches"
    /\ batches # <<>>
    /\ Exit("aborted")
    /\ UNCHANGED <<dbVars, OtherVars, transcripts, taxonomy>>

\* lines 194-214: one turn of `for r in results`: the upsert of the next
\* result in its own transaction and the counter; after the last result the
\* next batch, or the next session
UpsertResult ==
    /\ pc = "upserting"
    /\ results # <<>>
    /\ message_classification' =
          UpsertResults(message_classification, <<Head(results)>>, 1, msgs_raw)
    /\ messages_processed' = messages_processed + Upserted(<<Head(results)>>, msgs_raw)
    /\ results' = Tail(results)
    /\ IF Tail(results) # <<>>
       THEN UNCHANGED <<pc, idx, batches>>
       ELSE /\ batches' = Tail(batches)
            /\ IF Tail(batches) = <<>>
               THEN pc' = "session" /\ idx' = idx + 1
               ELSE pc' = "batches" /\ idx' = idx
    /\ UNCHANGED <<args, sessions, fetched, n_at_fetch, msgs_raw, result,
                   sessions_processed>>
    /\ UNCHANGED <<message_table, session_classification, OtherVars, transcripts, taxonomy>>

\* lines 216-221: the loop is over, the counters are returned
Return ==
    /\ pc = "session"
    /\ idx > Len(sessions)
    /\ Exit("idle")
    /\ UNCHANGED <<dbVars, OtherVars, transcripts, taxonomy>>

\* somebody edits or removes the taxonomy file; run_pipeline reads it at line
\* 104 only
EditTaxonomy(src) ==
    /\ taxonomy # src
    /\ taxonomy' = src
    /\ UNCHANGED <<dbVars, runVars, OtherVars, transcripts>>

Next ==
    \/ \E s \in SessionIds, r \in RoleNames, t \in 1..MaxTs : AddMessage(s, r, t)
    \/ LoadCategories
    \/ SetupFails
    \/ \E a \in ArgsSet, since \in SinceValues : StartPass(a, since)
    \/ FetchMessages
    \/ SessionCall
    \/ SessionUpsert
    \/ SelectTargets
    \/ SessionCallFails
    \/ ClassifyBatch
    \/ BatchCallFails
    \/ UpsertResult
    \/ DbFails
    \/ Return

Spec == Init /\ [][Next]_vars

(***************************************************************************)
(* SpecCoerce: one call of _coerce_results on inputs drawn from the        *)
(* bounded sets above.                                                     *)
(***************************************************************************)
InitCoerce ==
    /\ model_out \in ModelOuts
    /\ categories \in CategoryLists
    /\ expected_ids \in ExpectedLists
    /\ coerced = [state |-> "pending", raised |-> FALSE, out |-> <<>>]
    /\ InitDb
    /\ InitRun
    /\ NoParse
    /\ NoClient
    /\ NoChunk
    /\ taxonomy = ValidTaxonomy

Coerce ==
    /\ coerced.state = "pending"
    /\ LET r == _coerce_results(model_out, categories, expected_ids)
       IN coerced' = [state |-> "done", raised |-> r.raised, out |-> r.out]
    /\ UNCHANGED <<model_out, categories, expected_ids, dbVars, runVars,
                   parseVars, clientVars, chunkVars, transcripts, taxonomy>>

NextCoerce == Coerce

SpecCoerce == InitCoerce /\ [][NextCoerce]_vars

(***************************************************************************)
(* SpecParse: one call of _robust_json_parse on every text of at most      *)
(* MaxLen characters.                                                      *)
(***************************************************************************)
InitParse ==
    /\ content \in Texts
    /\ parsed = [state |-> "pending", raised |-> FALSE, v |-> <<>>, s |-> <<>>,
                 repaired |-> FALSE]
    /\ NoCoerce
    /\ InitDb
    /\ InitRun
    /\ NoClient
    /\ NoChunk
    /\ taxonomy = ValidTaxonomy

RobustParse ==
    /\ parsed.state = "pending"
    /\ LET r == _robust_json_parse(content)
       IN parsed' = [state |-> "done", raised |-> r.raised, v |-> r.v, s |-> r.s,
                     repaired |-> r.repaired]
    /\ UNCHANGED <<content, coerceVars, dbVars, runVars, clientVars, chunkVars, transcripts, taxonomy>>

NextParse == RobustParse

SpecParse == InitParse /\ [][NextParse]_vars

(***************************************************************************)
(* SpecClient: one request classify_text(...), the service answering each  *)
(* call of create with any of Responses.                                   *)
(***************************************************************************)
StartRequest ==
    /\ ct_pc = "idle"
    /\ ct_pc' = "create"
    /\ attempt_number' = 1
    /\ UNCHANGED <<calls, raw, ct_out>>
    /\ UNCHANGED <<coerceVars, dbVars, runVars, parseVars, chunkVars, transcripts, taxonomy>>

\* an exception leaves the body of classify_text: tenacity runs the body
\* again or re-raises it to the caller (reraise=True)
Raise(e) ==
    IF ShouldRetry(e, attempt_number)
    THEN /\ ct_pc' = "create"
         /\ attempt_number' = attempt_number + 1
         /\ UNCHANGED ct_out
    ELSE /\ ct_pc' = "raised"
         /\ ct_out' = [error |-> e, v |-> <<>>]
         /\ UNCHANGED attempt_number

ReturnValue(v) ==
    /\ ct_pc' = "returned"
    /\ ct_out' = [error |-> "", v |-> v]
    /\ UNCHANGED attempt_number

LogCall(kind, resp) ==
    calls' = Append(calls, [kind |-> kind, attempt |-> attempt_number,
                            result |-> ResultOf(resp)])

\* lines 180-196: the classification call and the parse of its answer
Create(resp) ==
    /\ ct_pc = "create"
    /\ LogCall("classify", resp)
    /\ IF resp.kind \in TransientErrors \cup OtherErrors
       THEN Raise(resp.kind) /\ raw' = NoContent
       ELSE LET r == ParseContent(resp)
            IN IF ~r.raised
               THEN ReturnValue(r.v) /\ raw' = NoContent
               ELSE /\ ct_pc' = "repair"
                    /\ raw' = resp
                    /\ UNCHANGED <<attempt_number, ct_out>>
    /\ UNCHANGED <<coerceVars, dbVars, runVars, parseVars, chunkVars, transcripts, taxonomy>>

\* lines 196-219 with _repair_json_with_model (85-146): the repair call and
\* the parse of its answer; whatever it raises is re-raised
Repair(resp) ==
    /\ ct_pc = "repair"
    /\ LogCall("repair", resp)
    /\ raw' = NoContent
    /\ IF resp.kind \in TransientErrors \cup OtherErrors
       THEN Raise(resp.kind)
       ELSE LET r == ParseContent(resp)
            IN IF ~r.raised THEN ReturnValue(r.v) ELSE Raise(r.error)
    /\ UNCHANGED <<coerceVars, dbVars, runVars, parseVars, chunkVars, transcripts, taxonomy>>

InitClient ==
    /\ NoClient
    /\ NoCoerce
    /\ InitDb
    /\ InitRun
    /\ NoParse
    /\ NoChunk
    /\ taxonomy = ValidTaxonomy

NextClient ==
    \/ StartRequest
    \/ \E resp \in Responses : Create(resp)
    \/ \E resp \in Responses : Repair(resp)

SpecClient == InitClient /\ [][NextClient]_vars

(***************************************************************************)
(* SpecDb: the two upserts of src/db.py called with any arguments, in any  *)
(* order, on the result tables.                                            *)
(***************************************************************************)
ScoreMaps ==
    {Uniform(PipelineCategories),
     [c \in Range(PipelineCategories) |-> IF c = "billing" THEN Rat(1, 1) ELSE Zero]}

MessageUpsertArgs ==
    [message_id : 1..MaxMsgs, session_id : SessionIds, role : RoleNames,
     primary_category : Range(PipelineCategories), all_categories : ScoreMaps]

SessionUpsertArgs ==
    [session_id : SessionIds, primary_category : Range(PipelineCategories),
     processed_upto : 1..MaxTs, notes : {PrimAbsent, PrimStr("why")}]

UpsertMessage(mc, a) ==
    upsert_message_classification(mc, a.message_id, a.session_id, a.role,
        a.primary_category, a.all_categories, AssistantModel, InstrVersion)

UpsertSession(sc, a) ==
    upsert_session_classification(sc, a.session_id, a.primary_category, <<>>,
        a.processed_upto, AssistantModel, InstrVersion, a.notes)

DbUpsertMessage(a) ==
    /\ message_classification' = UpsertMessage(message_classification, a)
    /\ UNCHANGED <<message_table, session_classification, coerceVars, runVars,
                   parseVars, clientVars, chunkVars, transcripts, taxonomy>>

DbUpsertSession(a) ==
    /\ session_classification' = UpsertSession(session_classification, a)
    /\ UNCHANGED <<message_table, message_classification, coerceVars, runVars,
                   parseVars, clientVars, chunkVars, transcripts, taxonomy>>

NextDb ==
    \/ \E a \in MessageUpsertArgs : DbUpsertMessage(a)
    \/ \E a \in SessionUpsertArgs : DbUpsertSession(a)

SpecDb == Init /\ [][NextDb]_vars

(***************************************************************************)
(* SpecChunk: the chunking of lines 175-181 applied to every list of at    *)
(* most MaxTargets distinct message ids (never empty: lines 172-173) and   *)
(* every batch size.                                                       *)
(***************************************************************************)
MaxTargets == 4     \* longest target list
MaxBatch   == 3     \* largest batch size

TargetLists ==
    UNION {{t \in [1..n -> 1..MaxTargets] : \A i, j \in 1..n : t[i] = t[j] => i = j} :
              n \in 1..MaxTargets}

BatchSizes == {None} \cup {Some(n) : n \in -1..MaxBatch}

InitChunk ==
    /\ chunk_targets \in TargetLists
    /\ chunk_size \in BatchSizes
    /\ chunk_batches = [state |-> "pending", v |-> <<>>]
    /\ NoCoerce /\ InitDb /\ InitRun /\ NoParse /\ NoClient
    /\ taxonomy = ValidTaxonomy

ChunkTargets ==
    /\ chunk_batches.state = "pending"
    /\ chunk_batches' = [state |-> "done", v |-> BatchesOf(chunk_targets, chunk_size)]
    /\ UNCHANGED <<chunk_targets, chunk_size, taxonomy, transcripts, coerceVars, dbVars, runVars,
                   parseVars, clientVars>>

NextChunk == ChunkTargets

SpecChunk == InitChunk /\ [][NextChunk]_vars

(***************************************************************************)
(* LiveSpec: the scheduled deployment `--limit 1` with the other flags of  *)
(* the command line at their defaults (src/main.py:43-87), run again and   *)
(* again on a store that receives no new message, with a classification    *)
(* service that answers every call.                                        *)
(***************************************************************************)
LiveArgs ==
    [roles |-> {"user"}, limit |-> Some(1),
     run_session_classification |-> TRUE,
     run_message_classification |-> TRUE,
     reclassify_existing_messages |-> FALSE,
     per_session_message_batch_size |-> None]

MessageTables ==
    UNION {{[i \in 1..n |-> [id |-> i, session_id |-> f[i][1], role |-> f[i][2],
                              timestamp |-> f[i][3]]] :
                f \in [1..n -> SessionIds \X RoleNames \X (1..MaxTs)]} :
           n \in 0..MaxMsgs}

LiveInit ==
    /\ NoCoerce
    /\ message_table \in MessageTables
    /\ session_classification = <<>>
    /\ message_classification = <<>>
    /\ InitRun
    /\ NoParse
    /\ NoClient
    /\ NoChunk
    /\ taxonomy = ValidTaxonomy

LiveStartPass == StartPass(LiveArgs, None)

LiveClassifyBatch ==
    ClassifyBatchOf({a \in BatchAnswers(Head(batches)) : Iterable(a.items)})

LiveNext ==
    \/ LoadCategories
    \/ LiveStartPass
    \/ FetchMessages
    \/ SessionCall
    \/ SessionUpsert
    \/ SelectTargets
    \/ LiveClassifyBatch
    \/ UpsertResult
    \/ Return

LiveSpec == LiveInit /\ [][LiveNext]_vars /\ WF_vars(LiveNext)

(***************************************************************************)
(* SpecTaxonomy: run_pipeline with its default arguments or those of the   *)
(* scheduled deployment, on a store of at most MaxMsgs messages, while the *)
(* taxonomy file is edited or removed at any moment.                       *)
(***************************************************************************)
InitTaxonomy ==
    /\ message_table \in MessageTables
    /\ session_classification = <<>>
    /\ message_classification = <<>>
    /\ taxonomy \in TaxonomySources
    /\ InitRun /\ NoCoerce /\ NoParse /\ NoClient /\ NoChunk

NextTaxonomy ==
    \/ \E src \in TaxonomySources : EditTaxonomy(src)
    \/ LoadCategories
    \/ StartFails
    \/ SetupFails
    \/ \E a \in {NoArgs, LiveArgs} : StartPass(a, None)
    \/ FetchMessages
    \/ SessionCall
    \/ SessionUpsert
    \/ SelectTargets
    \/ SessionCallFails
    \/ ClassifyBatch
    \/ BatchCallFails
    \/ UpsertResult
    \/ DbFails
    \/ Return

SpecTaxonomy == InitTaxonomy /\ [][NextTaxonomy]_vars

TypeOK ==
    pc \in {"idle", "starting", "session", "fetched", "answered", "classified", "batches",
            "upserting", "aborted", "fatal"}

(***************************************************************************)
(* Claims about _coerce_results, checked under SpecCoerce.                 *)
(***************************************************************************)
Done     == coerced.state = "done"
Returned == Done /\ ~coerced.raised

\* positions of the candidate items whose message_id parses to id
MatchingItems(id) ==
    {j \in 1..Len(model_out.items.v) :
        ParseMid(model_out.items.v[j]).ok /\ ParseMid(model_out.items.v[j]).n = id}

FirstItemOf(id) ==
    model_out.items.v[CHOOSE j \in MatchingItems(id) : \A k \in MatchingItems(id) : j <= k]

Occurrences(seq, x) == Cardinality({i \in 1..Len(seq) : seq[i] = x})

\* every raw score of the item is zero or absent
AllZeroOrAbsent(it) ==
    \/ it.scores.k \in {"absent", "null"}
    \/ /\ it.scores.k = "map"
       /\ \A c \in Labels :
            \/ it.scores.m[c].k = "absent"
            \/ it.scores.m[c].k \in {"num", "numstr"} /\ it.scores.m[c].n = 0

\* C1 (completeness): whatever mapping the response is, the call returns
\* exactly len(expected_ids) results, the i-th result carries expected_ids[i],
\* and every requested id is answered as often as it was requested.
C1_Completeness ==
    Done =>
        /\ ~coerced.raised
        /\ Len(coerced.out) = Len(expected_ids)
        /\ \A i \in 1..Len(expected_ids) : coerced.out[i].message_id = expected_ids[i]
        /\ \A id \in Range(expected_ids) :
              Occurrences([i \in 1..Len(coerced.out) |-> coerced.out[i].message_id], id)
                  = Occurrences(expected_ids, id)

\* C2 (category validity): for every non-empty category list, with or
\* without the label 'other', the primary_category of every returned result
\* is a member of the supplied list.
C2_CategoryValidity ==
    Returned =>
        \A i \in 1..Len(coerced.out) : coerced.out[i].primary_category \in Range(categories)

\* C3 (never raises): for a response that is a mapping, whatever lies under
\* 'items' and in the fields of each item, the call returns a result list.
C3_NeverRaises == Done => ~coerced.raised

\* C4 (score completeness): in every returned result the keys of scores are
\* exactly the supplied categories, and when all raw scores of the item that
\* answers the id are zero or absent (or no item answers it), every score
\* is 1/|categories|.
C4_ScoreCompleteness ==
    Returned =>
        \A i \in 1..Len(coerced.out) :
            /\ DOMAIN coerced.out[i].scores = Range(categories)
            /\ (\/ MatchingItems(expected_ids[i]) = {}
                \/ AllZeroOrAbsent(FirstItemOf(expected_ids[i])))
               => \A c \in Range(categories) :
                     coerced.out[i].scores[c] = [n |-> 1, d |-> Len(categories)]

\* C4 witness: a returned result whose item spells out a zero score
C4_Witness ==
    /\ Returned
    /\ \E i \in 1..Len(coerced.out) :
          /\ MatchingItems(expected_ids[i]) # {}
          /\ FirstItemOf(expected_ids[i]).scores.k = "map"
          /\ FirstItemOf(expected_ids[i]).scores.m["billing"] = ScoreNum(0, 1)
          /\ AllZeroOrAbsent(FirstItemOf(expected_ids[i]))
          /\ Len(categories) > 1

\* C5 (duplicate precedence): when two or more candidate items parse to the
\* same expected id, the result of that id has the primary_category and the
\* scores built from the first of them in input order.
C5_DuplicatePrecedence ==
    Returned =>
        \A i \in 1..Len(coerced.out) :
            Cardinality(MatchingItems(expected_ids[i])) >= 2 =>
                LET e == Entry(FirstItemOf(expected_ids[i]), expected_ids[i], categories)
                IN /\ coerced.out[i].primary_category = e.primary_category
                   /\ coerced.out[i].scores = e.scores

\* C5 witness: two items of one expected id that would give different results
C5_Witness ==
    /\ Returned
    /\ \E i \in 1..Len(coerced.out) :
          \E j, k \in MatchingItems(expected_ids[i]) :
              /\ j < k
              /\ ~ScoresRaise(model_out.items.v[k], categories)
              /\ Entry(model_out.items.v[j], expected_ids[i], categories)
                    # Entry(model_out.items.v[k], expected_ids[i], categories)

(***************************************************************************)
(* Claims about the scheduler and the orchestrator, checked under Spec     *)
(* (C9 under LiveSpec).                                                    *)
(***************************************************************************)

\* the session ids a call of fetch_sessions_to_process returns
ReturnedSessions(messages, sc, since) ==
    UNION {{l[i].session_id : i \in 1..Len(l)} :
              l \in fetch_sessions_to_process(messages, sc, since)}

MessagesOf(messages, s) == {m \in Rows(messages) : m.session_id = s}

MaxTsOf(messages, s) == Max({m.timestamp : m \in MessagesOf(messages, s)})

InPass == pc \in {"session", "fetched", "answered", "classified", "batches", "upserting"}

\* the step is the session-level upsert of session s
ClassifiesSession(s) ==
    /\ pc = "answered"
    /\ pc' = "classified"
    /\ sessions[idx].session_id = s

\* the step inserts a message of s with a timestamp later than p
AddsNewer(s, p) ==
    /\ Len(message_table') = Len(message_table) + 1
    /\ message_table'[Len(message_table')].session_id = s
    /\ message_table'[Len(message_table')].timestamp > p

\* C6 (watermark monotonicity): right after the session-level upsert of a
\* session, no call of fetch_sessions_to_process returns it unless the
\* session has a message later than the written processed_upto that was not
\* in the transcript that was classified; and a classified session that is
\* not returned stays so until a step inserts a message of it later than its
\* processed_upto.
C6_WatermarkMonotonicity ==
    [][\A s \in SessionIds :
          /\ ClassifiesSession(s) =>
                \A since \in SinceValues :
                    s \in ReturnedSessions(message_table', session_classification', since)
                    => \E m \in MessagesOf(message_table', s) :
                          /\ m.timestamp > session_classification'[s].processed_upto
                          /\ \A i \in 1..Len(msgs_raw) : msgs_raw[i].id # m.id
          /\ (/\ s \in DOMAIN session_classification
              /\ s \notin ReturnedSessions(message_table, session_classification, None)
              /\ \E since \in SinceValues :
                    s \in ReturnedSessions(message_table', session_classification', since))
             => AddsNewer(s, session_classification[s].processed_upto)]_vars

\* C7 (re-surfacing after partial failure): when the handling of a session
\* stops because a sub-step fails, the next call of fetch_sessions_to_process
\* returns that session again.
C7_Resurfacing ==
    [][(InPass /\ pc' = "aborted") =>
          sessions[idx].session_id
              \in ReturnedSessions(message_table', session_classification', None)]_vars

\* C8 as stated (due rule): a session with at least one message is returned
\* if and only if it has no record or its maximum timestamp is strictly greater
\* than processed_upto, whatever `since` the call is given.
C8_DueRuleAsStated ==
    \A since \in SinceValues, s \in SessionIds :
        MessagesOf(message_table, s) # {} =>
            (s \in ReturnedSessions(message_table, session_classification, since)
             <=> \/ s \notin DOMAIN session_classification
                 \/ MaxTsOf(message_table, s) > session_classification[s].processed_upto)

\* C8 amended (due rule): a session with at least one message at or after the
\* `since` bound (any message when no bound is given) is returned if and only
\* if it has no record or its maximum timestamp is strictly greater than
\* processed_upto; a session with no such message is not returned.
C8_DueRule ==
    \A since \in SinceValues, s \in SessionIds :
        IF \E m \in MessagesOf(message_table, s) : InWindow(m, since)
        THEN s \in ReturnedSessions(message_table, session_classification, since)
             <=> \/ s \notin DOMAIN session_classification
                 \/ MaxTsOf(message_table, s) > session_classification[s].processed_upto
        ELSE s \notin ReturnedSessions(message_table, session_classification, since)

\* C8 witness: A has no record and is returned, B has processed_upto equal to
\* its maximum timestamp and is not
C8_Witness ==
    /\ MessagesOf(message_table, "A") # {}
    /\ "A" \notin DOMAIN session_classification
    /\ MessagesOf(message_table, "B") # {}
    /\ "B" \in DOMAIN session_classification
    /\ session_classification["B"].processed_upto = MaxTsOf(message_table, "B")
    /\ ReturnedSessions(message_table, session_classification, None) = {"A"}

\* C9 (forward progress under a limit): with passes repeated, a limit of at
\* least 1 and no new messages, every session that is due eventually stops
\* being due.
C9_ForwardProgress ==
    \A s \in SessionIds :
        (s \in ReturnedSessions(message_table, session_classification, None))
        ~> (s \notin ReturnedSessions(message_table, session_classification, None))

\* C10 (limit): for every integer limit, 0 included, the sessions handled in
\* the pass are exactly the first `limit` entries of the due list, so at most
\* `limit` sessions.
C10_Limit ==
    (InPass /\ args.limit.some) =>
        /\ Len(sessions) <= args.limit.v
        /\ sessions = SubSeq(fetched, 1,
                             IF args.limit.v < Len(fetched) THEN args.limit.v
                             ELSE Len(fetched))

(***************************************************************************)
(* Claims about _robust_json_parse, checked under SpecParse.               *)
(***************************************************************************)
ParseDone == parsed.state = "done"

\* the contents of the string literals of a text, in order: the characters
\* between the 1st and 2nd quote, the 3rd and 4th, ...
RECURSIVE StringLiterals(_, _, _, _)
StringLiterals(s, i, instring, cur) ==
    IF i > Len(s) THEN <<>>
    ELSE IF s[i] = "\""
    THEN IF instring THEN <<cur>> \o StringLiterals(s, i + 1, FALSE, <<>>)
         ELSE StringLiterals(s, i + 1, TRUE, <<>>)
    ELSE StringLiterals(s, i + 1, instring, IF instring THEN Append(cur, s[i]) ELSE cur)

LiteralsOf(s) == StringLiterals(s, 1, FALSE, <<>>)

\* C19: local repair does not alter already-valid content: a text that parses
\* as it is is returned as its own parse, and when a repaired text is
\* returned the characters inside its string values are those of the
\* response (only separator commas were removed and closers appended).
C19_ValidContentKept ==
    ParseDone =>
        /\ json_loads(content).ok =>
              /\ ~parsed.raised
              /\ ~parsed.repaired
              /\ parsed.v = json_loads(content).v
        /\ (parsed.repaired /\ ~parsed.raised) =>
              LiteralsOf(parsed.s) = LiteralsOf(strip(content))

\* a valid document cut off right after a complete value, with one or more
\* aggregates left unclosed
Truncated(text) ==
    LET r == Scan(text, 1, "val", <<>>)
    IN ~r.err /\ r.st \in {"after", "num"} /\ r.stack # <<>>

\* the closers that complete a truncated document, innermost first
RECURSIVE ClosersOf(_)
ClosersOf(stack) ==
    IF stack = <<>> THEN <<>>
    ELSE <<IF Top(stack) = "[" THEN "]" ELSE "}">> \o ClosersOf(Pop(stack))

\* C20: truncation repair: a valid document cut off right after a complete
\* value, leaving aggregates (possibly nested) unclosed, is completed by
\* appending the missing closers and the repaired text parses.
C20_TruncationRepair ==
    (ParseDone /\ Truncated(content)) =>
        /\ ~parsed.raised
        /\ parsed.v = Compact(content \o ClosersOf(Scan(content, 1, "val", <<>>).stack),
                              1, FALSE)

(***************************************************************************)
(* Claims about classify_text, checked under SpecClient.                   *)
(***************************************************************************)
CallsOf(kind) == {i \in 1..Len(calls) : calls[i].kind = kind}

RequestOver == ct_pc \in {"returned", "raised"}

ParseErrors == {"JSONDecodeError", "TypeError"}

\* C11: repair escalation is one call deep: a request whose answer fails to
\* parse after local repair issues exactly one repair call, and never a
\* second one.
C11_OneRepairCall ==
    /\ Cardinality(CallsOf("repair")) <= 1
    /\ (RequestOver /\ \E i \in CallsOf("classify") : calls[i].result = "unparseable")
          => Cardinality(CallsOf("repair")) = 1

\* C12: terminal parse error: when the answer of the repair call fails to
\* parse too, the request ends with a parse error at the caller; it is not
\* run again and no further call is made.
C12_TerminalParseError ==
    \A i \in CallsOf("repair") :
        calls[i].result = "unparseable" =>
            /\ i = Len(calls)
            /\ ct_pc = "raised"
            /\ ct_out.error \in ParseErrors
            /\ attempt_number = calls[i].attempt

C12_Witness ==
    /\ ct_pc = "raised"
    /\ ct_out.error = "JSONDecodeError"
    /\ calls # <<>>
    /\ calls[Len(calls)].kind = "repair"
    /\ calls[Len(calls)].result = "unparseable"

\* C13: bounded retry: a transient error is retried while fewer than 5
\* attempts were made, the 5th transient failure reaches the caller, and an
\* error of any other class ends the request at once.
C13_BoundedRetry ==
    /\ attempt_number <= stop_after_attempt
    /\ \A i \in 1..Len(calls) :
          /\ (calls[i].result \in TransientErrors /\ calls[i].attempt < stop_after_attempt)
                => /\ attempt_number > calls[i].attempt
                   /\ i < Len(calls) => calls[i + 1].attempt = calls[i].attempt + 1
                   /\ i = Len(calls) => (ct_pc = "create" /\ attempt_number = calls[i].attempt + 1)
          /\ (calls[i].result \in TransientErrors /\ calls[i].attempt = stop_after_attempt)
                => /\ i = Len(calls)
                   /\ ct_pc = "raised"
                   /\ ct_out.error = calls[i].result
          /\ calls[i].result \in OtherErrors
                => /\ i = Len(calls)
                   /\ ct_pc = "raised"
                   /\ ct_out.error = calls[i].result
                   /\ attempt_number = calls[i].attempt

C13_Witness ==
    /\ ct_pc = "raised"
    /\ ct_out.error \in TransientErrors
    /\ attempt_number = stop_after_attempt
    /\ \A a \in 1..stop_after_attempt : \E i \in 1..Len(calls) : calls[i].attempt = a

(***************************************************************************)
(* Claims about the upserts, checked under SpecDb.                         *)
(***************************************************************************)
MessageRowsOf(mc, id) == {k \in DOMAIN mc : mc[k].message_id = id}

SessionRowsOf(sc, id) == {k \in DOMAIN sc : sc[k].session_id = id}

\* C14: idempotent persistence: the same upsert applied twice leaves exactly
\* one row for the key, with the fields (the run timestamp is not modelled)
\* it had after the first application.
C14_IdempotentUpsert ==
    /\ \A a \in MessageUpsertArgs :
          LET once == UpsertMessage(message_classification, a)
              twice == UpsertMessage(once, a)
          IN /\ Cardinality(MessageRowsOf(twice, a.message_id)) = 1
             /\ twice = once
    /\ \A a \in SessionUpsertArgs :
          LET once == UpsertSession(session_classification, a)
              twice == UpsertSession(once, a)
          IN /\ Cardinality(SessionRowsOf(twice, a.session_id)) = 1
             /\ twice = once

\* a table on which an upsert was applied to a key that already had a row of
\* another content: the row was superseded, and applying the same upsert
\* again leaves the table as it is
C14_Witness ==
    \E a \in MessageUpsertArgs :
        /\ a.message_id \in DOMAIN message_classification
        /\ Cardinality(DOMAIN message_classification) = MaxMsgs
        /\ message_classification[a.message_id].primary_category = a.primary_category
        /\ message_classification[a.message_id].session_id # a.session_id
        /\ UpsertMessage(message_classification, a) = message_classification

(***************************************************************************)
(* Claims about the message level and the watermark of run_pipeline,       *)
(* checked under Spec.                                                     *)
(***************************************************************************)
IdsOf(msgs) == {msgs[i].id : i \in 1..Len(msgs)}

BatchIds(bs) == UNION {Range(bs[i]) : i \in 1..Len(bs)}

\* the step settles the targets of a session and their batches
HandlesSession ==
    /\ pc = "classified"
    /\ pc' = "batches" \/ (pc' = "session" /\ idx' = idx + 1)

\* the step is a session-level call, answered
SessionAnswered == pc = "fetched" /\ pc' = "answered"

\* the step is the model call of a message batch, answered
BatchAnswered == pc = "batches" /\ pc' = "upserting"

\* the step is the upsert of the next result of the answered batch
ResultUpserted ==
    /\ pc = "upserting"
    /\ pc' # "aborted"
    /\ results # <<>>
    /\ results' = Tail(results)

\* the step is the upsert of the last result of a batch
BatchDone == ResultUpserted /\ results' = <<>>

\* C15: skip of already-recorded messages: without the reclassify flag no
\* message that has a record is in a batch sent to the service and no
\* existing record is rewritten; with the flag the batches of a handled
\* session hold every fetched message, an answered batch has one result per
\* message of the batch, and every result is upserted and counted (unless the
\* store fails, which aborts the pass like a failed call).
C15_SkipRecorded ==
    [][/\ (pc = "batches" /\ ~args.reclassify_existing_messages) =>
             BatchIds(batches) \cap DOMAIN message_classification = {}
       /\ (pc \in {"batches", "upserting"} /\ ~args.reclassify_existing_messages) =>
             \A id \in DOMAIN message_classification :
                   /\ id \in DOMAIN message_classification'
                   /\ message_classification'[id] = message_classification[id]
       /\ (HandlesSession /\ args.run_message_classification
                          /\ ~args.reclassify_existing_messages) =>
             BatchIds(batches') = IdsOf(msgs_raw') \ DOMAIN message_classification
       /\ (HandlesSession /\ args.run_message_classification
                          /\ args.reclassify_existing_messages) =>
             BatchIds(batches') = IdsOf(msgs_raw')
       /\ (BatchAnswered /\ args.reclassify_existing_messages) =>
             /\ Len(results') = Len(Head(batches))
             /\ \A i \in 1..Len(results') : results'[i].message_id = Head(batches)[i]
       /\ (ResultUpserted /\ args.reclassify_existing_messages) =>
             LET id == Head(results).message_id
             IN /\ id \in DOMAIN message_classification'
                /\ message_classification'[id].message_id = id
                /\ messages_processed' = messages_processed + 1
       /\ (BatchDone /\ args.reclassify_existing_messages) =>
             Range(Head(batches)) \subseteq DOMAIN message_classification']_vars

\* C15 witness: a message with a record is skipped while a newer message of
\* the same session waits in a batch
C15_Witness ==
    /\ pc = "batches"
    /\ ~args.reclassify_existing_messages
    /\ IdsOf(msgs_raw) \cap DOMAIN message_classification # {}
    /\ BatchIds(batches) # {}

\* C15 witness of the flag: a message with a record is sent again
C15_WitnessReclassify ==
    /\ pc = "batches"
    /\ args.reclassify_existing_messages
    /\ BatchIds(batches) \cap DOMAIN message_classification # {}

\* C16: watermark value: the processed_upto written for a session is the
\* latest timestamp among the messages the session had when its transcript
\* was fetched, so it is not earlier than any message of the transcript that
\* was sent, and it is the timestamp of a message of the session.
C16_WatermarkValue ==
    [][\A s \in SessionIds :
          ClassifiesSession(s) =>
              LET upto == session_classification'[s].processed_upto
              IN /\ \A i \in 1..Len(msgs_raw) : msgs_raw[i].timestamp <= upto
                 /\ \E m \in MessagesOf(message_table, s) : m.timestamp = upto]_vars

(***************************************************************************)
(* Further claims about _coerce_results, checked under SpecCoerce.         *)
(***************************************************************************)
\* the scores the spec describes for a candidate: every category of the
\* list, an absent or unconvertible score as 0.0
LenientScores(it, cats) ==
    [c \in Range(cats) |->
        IF it.scores.k = "nonmap" \/ ~CanFloat(RawScoresOf(it)[c]) THEN Zero
        ELSE FloatOf(RawScoresOf(it)[c])]

\* some category of the list has a score that float() cannot convert
HasBadScore(it, cats) ==
    /\ it.scores.k = "map"
    /\ \E c \in Range(cats) : ~CanFloat(it.scores.m[c])

\* C17: score coercion failure is local: when a kept candidate carries a
\* score that cannot be converted, the call still returns a result for every
\* expected id, and the result of that candidate has 0.0 for the category
\* and the supplied scores for the others (the uniform scores if these sum
\* to 0.0).
C17_ScoreFailureLocal ==
    Done =>
        \A i \in 1..Len(expected_ids) :
            (/\ MatchingItems(expected_ids[i]) # {}
             /\ HasBadScore(FirstItemOf(expected_ids[i]), categories)) =>
                /\ ~coerced.raised
                /\ Len(coerced.out) = Len(expected_ids)
                /\ LET lenient == LenientScores(FirstItemOf(expected_ids[i]), categories)
                   IN coerced.out[i].scores =
                         IF SumScores(lenient, Range(categories)) = Zero
                         THEN Uniform(categories) ELSE lenient

\* C18: fill and keep rule: every expected id has a result; an id that no
\* candidate covers has 'other' and the uniform scores; an id covered by a
\* candidate with a valid category has that category and the candidate's
\* scores, the absent ones as 0.0; nothing else of the response matters.
C18_FillAndKeep ==
    Done =>
        \A i \in 1..Len(expected_ids) :
            /\ i \in DOMAIN coerced.out
            /\ MatchingItems(expected_ids[i]) = {} =>
                  coerced.out[i] = DefaultEntry(expected_ids[i], categories)
            /\ (/\ MatchingItems(expected_ids[i]) # {}
                /\ PrimaryOf(FirstItemOf(expected_ids[i])) \in Range(categories)) =>
                  /\ coerced.out[i].primary_category
                        = PrimaryOf(FirstItemOf(expected_ids[i]))
                  /\ coerced.out[i].scores
                        = LenientScores(FirstItemOf(expected_ids[i]), categories)

(***************************************************************************)
(* Further claim about _robust_json_parse, checked under SpecParse.        *)
(***************************************************************************)
RemoveAt(s, i) == SubSeq(s, 1, i - 1) \o SubSeq(s, i + 1, Len(s))

\* the positions of a comma directly before a closer whose removal leaves a
\* valid document
DanglingCommas(text) ==
    {i \in 1..(Len(text) - 1) :
        /\ text[i] = ","
        /\ text[i + 1] \in {"]", "}"}
        /\ json_loads(RemoveAt(text, i)).ok}

\* C21: trailing-separator repair: a text whose only defect is one comma
\* directly before a closing ']' or '}' is parsed by the local repair, as the
\* document without that comma, so that classify_text needs no repair call.
C21_TrailingSeparator ==
    (ParseDone /\ ~json_loads(content).ok /\ DanglingCommas(content) # {}) =>
        /\ ~parsed.raised
        /\ \E i \in DanglingCommas(content) :
              parsed.v = json_loads(RemoveAt(content, i)).v

(***************************************************************************)
(* Claims C22, C23: the scheduling query and the order of the loop.        *)
(***************************************************************************)
Ascending(l) == \A i, j \in 1..Len(l) : i < j => l[i].max_ts <= l[j].max_ts

IsPrefix(a, b) == Len(a) <= Len(b) /\ a = SubSeq(b, 1, Len(a))

\* the keys whose record is written by the step from table f to table g
ChangedKeys(f, g) == {k \in DOMAIN g : k \notin DOMAIN f \/ f[k] # g[k]}

\* the session the loop is at
Current == sessions[idx].session_id

\* C22 (processing order): the list fetch_sessions_to_process returns ascends
\* in max_ts and holds no session twice, the pass handles a prefix of it, and
\* the loop never goes back: the index moves by one step at most and leaves a
\* session only when no batch of it is left; every record written in a pass
\* (the outcome of a model call) is one of the session the loop is at, and the
\* batches waiting for a model call hold messages of that session only.
C22_ProcessingOrder ==
    [][/\ (~InPass /\ InPass') =>
              /\ Ascending(fetched')
              /\ \A i, j \in 1..Len(fetched') :
                    fetched'[i].session_id = fetched'[j].session_id => i = j
              /\ IsPrefix(sessions', fetched')
              /\ idx' = 1
       /\ (InPass /\ InPass') =>
              /\ sessions' = sessions
              /\ idx' \in {idx, idx + 1}
              /\ idx' = idx + 1 => batches' = <<>> /\ results' = <<>> /\ pc' = "session"
       /\ \A k \in ChangedKeys(session_classification, session_classification') :
              InPass /\ idx <= Len(sessions) /\ k = Current
       /\ \A k \in ChangedKeys(message_classification, message_classification') :
              /\ InPass /\ idx <= Len(sessions)
              /\ \E m \in MessagesOf(message_table, Current) : m.id = k
       /\ pc' \in {"fetched", "answered", "classified", "batches", "upserting"} =>
              /\ idx' <= Len(sessions')
              /\ BatchIds(batches') \cup {results'[i].message_id : i \in 1..Len(results')}
                    \subseteq
                    {m.id : m \in MessagesOf(message_table', sessions'[idx'].session_id)}
      ]_vars

\* the loop is at the second of two sessions with different max_ts, the
\* first one classified
C22_Witness ==
    /\ pc = "batches"
    /\ idx = 2
    /\ Len(sessions) = 2
    /\ sessions[1].max_ts < sessions[2].max_ts
    /\ sessions[1].session_id \in DOMAIN session_classification
    /\ \E k \in DOMAIN message_classification :
          message_classification[k].session_id = sessions[1].session_id

\* the messages of session s at or after the bound t
AtOrAfter(messages, s, t) == {m \in MessagesOf(messages, s) : m.timestamp >= t}

\* C23 (incremental window): for the stored messages and records and a
\* `since` bound, every row of every list fetch_sessions_to_process may
\* return has the max timestamp and the count of the session's messages at
\* or after the bound, and no row is returned for a session without such a
\* message, with or without a classification record.
C23_IncrementalWindow ==
    \A since \in {x \in SinceValues : Truthy(x)} :
        \A l \in fetch_sessions_to_process(message_table, session_classification, since) :
            /\ \A i \in 1..Len(l) :
                  LET win == AtOrAfter(message_table, l[i].session_id, since.v)
                  IN /\ win # {}
                     /\ l[i].max_ts = Max({m.timestamp : m \in win})
                     /\ l[i].message_count = Cardinality(win)
            /\ \A s \in SessionIds :
                  AtOrAfter(message_table, s, since.v) = {} =>
                      \A i \in 1..Len(l) : l[i].session_id # s

\* a pass was started with a bound: the one session returned has two
\* messages, one before the bound, and is counted with one message
C23_Witness ==
    /\ pc = "session"
    /\ idx = 1
    /\ Len(fetched) = 1
    /\ fetched[1].message_count = 1
    /\ Cardinality(MessagesOf(message_table, fetched[1].session_id)) = 2
    /\ fetched[1].session_id \notin DOMAIN session_classification

\* a pass was started with a bound: a session without a record whose only
\* message is before the bound is not in the returned list
C23_WitnessNotReturned ==
    /\ pc = "session"
    /\ idx = 1
    /\ Len(fetched) = 1
    /\ \E s \in SessionIds :
          /\ s # fetched[1].session_id
          /\ s \notin DOMAIN session_classification
          /\ MessagesOf(message_table, s) # {}
          /\ AtOrAfter(message_table, s, MaxTs) = {}

(***************************************************************************)
(* Claim C24: the chunking of the targets.                                 *)
(***************************************************************************)
RECURSIVE Concat(_)
Concat(bs) == IF bs = <<>> THEN <<>> ELSE Head(bs) \o Concat(Tail(bs))

ChunkDone == chunk_batches.state = "done"

\* C24 (chunking): with a positive batch size n the batches, put end to end,
\* are the target list, every batch but the last has n ids, the last one has
\* between 1 and n, and there is no batch for an empty list; with no batch
\* size there is one batch, the whole target list.
C24_Chunking ==
    ChunkDone =>
        LET bs == chunk_batches.v
        IN /\ (Truthy(chunk_size) /\ chunk_size.v > 0) =>
                  /\ Concat(bs) = chunk_targets
                  /\ \A i \in 1..Len(bs) :
                        /\ Len(bs[i]) >= 1
                        /\ Len(bs[i]) <= chunk_size.v
                        /\ i < Len(bs) => Len(bs[i]) = chunk_size.v
           /\ chunk_size = None => bs = <<chunk_targets>>

\* four targets in batches of three: a full batch and a short last one
C24_Witness ==
    /\ ChunkDone
    /\ chunk_size = Some(3)
    /\ Len(chunk_targets) = 4
    /\ Len(chunk_batches.v) = 2
    /\ Len(chunk_batches.v[2]) = 1

(***************************************************************************)
(* Claim C25: records are stored as soon as a call is answered.            *)
(***************************************************************************)
\* the step ends the pass with an exception
Aborts == InPass /\ pc' = "aborted"

\* C25 (immediate persistence): the step after an answered session-level
\* call stores the record of that session (or the store fails and the pass
\* is aborted); a model call is made only when no answer of an earlier call
\* is left to upsert, and when the last
\* result of a batch is upserted every message of the batch has a record; no
\* step removes a record, and the step in which a call or the store fails and
\* the pass is aborted leaves every stored record as it is.
C25_ImmediatePersistence ==
    [][/\ ClassifiesSession(Current) =>
              /\ Current \in DOMAIN session_classification'
              /\ session_classification'[Current].processed_upto = sessions[idx].max_ts
       /\ pc = "answered" => pc' \in {"answered", "classified", "aborted"}
       /\ (BatchAnswered \/ SessionAnswered) => result = <<>> /\ results = <<>>
       /\ BatchDone => Range(Head(batches)) \subseteq DOMAIN message_classification'
       /\ DOMAIN session_classification \subseteq DOMAIN session_classification'
       /\ DOMAIN message_classification \subseteq DOMAIN message_classification'
       /\ Aborts =>
              /\ session_classification' = session_classification
              /\ message_classification' = message_classification
      ]_vars

\* the pass was aborted after the first session was classified at both
\* levels: its records are stored
C25_Witness ==
    /\ pc = "aborted"
    /\ session_classification # <<>>
    /\ message_classification # <<>>
    /\ \E s \in SessionIds : s \notin DOMAIN session_classification /\ MessagesOf(message_table, s) # {}

(***************************************************************************)
(* Claim C26, checked under SpecDb.                                        *)
(***************************************************************************)
\* C26 (upsert replaces prior fields): upsert_message_classification applied
\* to a message_id that has a record leaves a record whose session_id, role,
\* primary_category, scores, model and instructions_version are the values
\* passed in the call.
C26_UpsertReplaces ==
    \A a \in MessageUpsertArgs :
        a.message_id \in DOMAIN message_classification =>
            LET row == UpsertMessage(message_classification, a)[a.message_id]
            IN /\ row.session_id = a.session_id
               /\ row.role = a.role
               /\ row.primary_category = a.primary_category
               /\ row.all_categories = a.all_categories
               /\ row.model = AssistantModel
               /\ row.instructions_version = InstrVersion

(***************************************************************************)
(* Claim C27, checked under Spec.                                          *)
(***************************************************************************)
\* the category list run_pipeline loaded for the pass
Loaded == Range(load_categories(taxonomy).cats)

\* C27 (persisted category validity): every session record and every message
\* record written in a pass has a primary_category of the loaded category
\* list, whatever the model returned.
C27_PersistedCategoryValid ==
    [][/\ \A k \in ChangedKeys(session_classification, session_classification') :
              session_classification'[k].primary_category \in Loaded
       /\ \A k \in ChangedKeys(message_classification, message_classification') :
              message_classification'[k].primary_category \in Loaded
      ]_vars

(***************************************************************************)
(* Claim C28, checked under SpecCoerce.                                    *)
(***************************************************************************)
One == Rat(1, 1)

\* C28 (score range): every score of every result _coerce_results returns is
\* between 0 and 1 inclusive.
C28_ScoreRange ==
    Returned =>
        \A i \in 1..Len(coerced.out) :
            \A c \in DOMAIN coerced.out[i].scores :
                /\ RatLeq(Zero, coerced.out[i].scores[c])
                /\ RatLeq(coerced.out[i].scores[c], One)

(***************************************************************************)
(* Claim C29, checked under Spec.                                          *)
(***************************************************************************)
\* the step upserts the session record of the session the loop is at
SessionUpsertStep == pc = "answered" /\ pc' = "classified"

\* C29 (counters): a pass starts with both counters at 0; sessions_processed
\* grows by one in exactly the steps that upsert a session record and
\* messages_processed grows by one in exactly the steps that upsert the
\* record of a result; an answered batch has one result per target of the
\* batch; no other step of the pass changes a counter or writes a record, so
\* the counters the pass returns are the numbers of upserts it performed.
C29_Counters ==
    [][/\ (~InPass /\ InPass') => sessions_processed' = 0 /\ messages_processed' = 0
       /\ (InPass /\ InPass') =>
              /\ sessions_processed' =
                    sessions_processed + (IF SessionUpsertStep THEN 1 ELSE 0)
              /\ messages_processed' =
                    messages_processed + (IF ResultUpserted THEN 1 ELSE 0)
              /\ ChangedKeys(session_classification, session_classification') # {} =>
                    SessionUpsertStep
              /\ ChangedKeys(message_classification, message_classification') # {} =>
                    ResultUpserted
       /\ SessionUpsertStep => Current \in DOMAIN session_classification'
       /\ BatchAnswered =>
              /\ Len(results') = Len(Head(batches))
              /\ \A i \in 1..Len(results') : results'[i].message_id = Head(batches)[i]
              /\ Cardinality(Range(Head(batches))) = Len(Head(batches))
       /\ ResultUpserted =>
              /\ Head(results).message_id \in DOMAIN message_classification'
              /\ ChangedKeys(message_classification, message_classification')
                    \subseteq {Head(results).message_id}
      ]_vars

\* the loop is over after a session with two target messages in one batch:
\* the pass is about to return the counters 1 and 2
C29_Witness ==
    /\ pc = "session"
    /\ idx > Len(sessions)
    /\ sessions_processed = 1
    /\ messages_processed = 2
    /\ Cardinality(DOMAIN message_classification) = 2

(***************************************************************************)
(* Claim C30, checked under SpecTaxonomy.                                  *)
(***************************************************************************)
\* the taxonomy file is missing, has no list under 'categories', or an
\* empty one
BadTaxonomy ==
    \/ taxonomy.kind \in {"missing", "nomapping", "nokey", "scalar"}
    \/ taxonomy.cats = <<>>

\* C30 (taxonomy failure is fatal before any work): a run that finds a bad
\* taxonomy when it loads the categories does not reach the scheduling
\* query: no pass starts from it, no model call is made and no record is
\* written; a run ends with the error of load_categories only at that load,
\* with a bad taxonomy, and leaves the tables as they are; a pass starts
\* only after a load that succeeded, and records are written only in a pass.
C30_TaxonomyFatal ==
    [][/\ (BadTaxonomy /\ pc \in BetweenRuns) =>
              /\ pc' \in BetweenRuns
              /\ session_classification' = session_classification
              /\ message_classification' = message_classification
       /\ (pc # "fatal" /\ pc' = "fatal") =>
              /\ pc \in BetweenRuns
              /\ BadTaxonomy
              /\ load_categories(taxonomy).error # ""
              /\ dbVars' = dbVars
       /\ (pc # "starting" /\ pc' = "starting") =>
              /\ pc \in BetweenRuns
              /\ ~BadTaxonomy
       /\ (~InPass /\ InPass') => pc = "starting"
       /\ ~InPass =>
              /\ session_classification' = session_classification
              /\ message_classification' = message_classification
      ]_vars

\* a run ended with the error of an empty category list while a session
\* was due: nothing was written
C30_Witness ==
    /\ pc = "fatal"
    /\ taxonomy = [kind |-> "list", cats |-> <<>>]
    /\ fetch_sessions_to_process(message_table, session_classification, None) # {<<>>}
    /\ session_classification = <<>>
    /\ message_classification = <<>>

(***************************************************************************)
(* Claims C31, C32: the watermark over successive passes, checked under    *)
(* Spec (messages are only added: AddMessage).                             *)
(***************************************************************************)
\* C31 (watermark never decreases): no step removes a session record or
\* lowers its processed_upto, and the session-level upsert of a session that
\* has a record writes a processed_upto strictly greater than the stored one.
C31_WatermarkGrows ==
    [][/\ \A s \in DOMAIN session_classification :
              /\ s \in DOMAIN session_classification'
              /\ session_classification'[s].processed_upto >=
                    session_classification[s].processed_upto
       /\ (SessionUpsertStep /\ Current \in DOMAIN session_classification) =>
              session_classification'[Current].processed_upto >
                  session_classification[Current].processed_upto
      ]_vars

\* a session classified up to 1 in an earlier pass got a later message and
\* is returned by the scheduling query of a pass that classifies sessions:
\* the loop is at it, about to replace the record with processed_upto 2
C31_Witness ==
    /\ pc = "session"
    /\ idx = 1
    /\ Len(sessions) >= 1
    /\ args.run_session_classification
    /\ sessions[1].session_id \in DOMAIN session_classification
    /\ session_classification[sessions[1].session_id].processed_upto = 1
    /\ sessions[1].max_ts = 2
    /\ \E m \in MessagesOf(message_table, sessions[1].session_id) :
          m.timestamp = 2 /\ m.role \in args.roles

\* messages were only added with timestamps not earlier than the maximum of
\* their session at that time (ids are given in the order of insertion)
AddedInOrder ==
    \A m1, m2 \in Rows(message_table) :
        (m1.session_id = m2.session_id /\ m1.id < m2.id) => m1.timestamp <= m2.timestamp

\* C32 (no message left behind by the watermark): with messages added in
\* timestamp order, a session that has a record and that the scheduling query
\* (without a bound) does not return has every message of the roles of the
\* session-level call behind its record in the transcript of that call.
C32_NoMessageLeftBehind ==
    AddedInOrder =>
        \A s \in DOMAIN session_classification :
            s \notin ReturnedSessions(message_table, session_classification, None) =>
                \A m \in MessagesOf(message_table, s) :
                    m.role \in transcripts[s].roles => m.id \in transcripts[s].ids

(***************************************************************************)
(* Claim C33, checked under SpecClient.                                    *)
(***************************************************************************)
\* the calls of a kind made in attempt a
CallsIn(kind, a) == {i \in CallsOf(kind) : calls[i].attempt = a}

\* C33 (bounded service calls): every attempt makes one classification call
\* and at most one repair call, the repair call right after the
\* classification call of its attempt; a transient error of a repair call
\* before the last attempt is followed by a new attempt that starts with a
\* classification call; a request makes at most 5 calls of each kind.
C33_BoundedCalls ==
    /\ \A a \in 1..attempt_number :
          /\ Cardinality(CallsIn("classify", a)) <= 1
          /\ (a < attempt_number \/ ct_pc # "create") =>
                Cardinality(CallsIn("classify", a)) = 1
          /\ Cardinality(CallsIn("repair", a)) <= 1
          /\ \A i \in CallsIn("repair", a) :
                /\ i > 1
                /\ calls[i - 1].kind = "classify"
                /\ calls[i - 1].attempt = a
                /\ calls[i - 1].result = "unparseable"
    /\ \A i \in 1..Len(calls) : calls[i].attempt \in 1..attempt_number
    /\ \A i \in CallsOf("repair") :
          (calls[i].result \in TransientErrors /\ calls[i].attempt < stop_after_attempt) =>
              /\ attempt_number > calls[i].attempt
              /\ i < Len(calls) =>
                    /\ calls[i + 1].kind = "classify"
                    /\ calls[i + 1].attempt = calls[i].attempt + 1
              /\ i = Len(calls) => ct_pc = "create"
    /\ Cardinality(CallsOf("classify")) <= stop_after_attempt
    /\ Cardinality(CallsOf("repair")) <= stop_after_attempt
    /\ RequestOver => calls # <<>>

\* a request that failed after 5 attempts, each with a classification call
\* and a repair call that raised a transient error: 10 calls
C33_Witness ==
    /\ ct_pc = "raised"
    /\ Cardinality(CallsOf("classify")) = stop_after_attempt
    /\ Cardinality(CallsOf("repair")) = stop_after_attempt
    /\ \A i \in CallsOf("repair") : calls[i].result \in TransientErrors

====
